---------------------------- MODULE Spec2Model ----------------------------
(***************************************************************************)
(* Time-marching driver of the 1-D compaction (Darcy-Stokes) column:       *)
(* source/solvers.py (weak_form, solve_pde, solve) and source/misc.py      *)
(* (interp, move_mesh).                                                    *)
(*                                                                         *)
(* Numbers are exact rationals <<n, d>> (d > 0, lowest terms): the floats  *)
(* of the program without their rounding.  The finite-element library is   *)
(* external: the Newton solve is a nondeterministic choice of nodal values *)
(* that satisfy the Dirichlet conditions handed to it (or a failure to     *)
(* converge), and the 1-D Laplace solve of move_mesh is the piecewise      *)
(* linear interpolant of its Dirichlet values.                             *)
(***************************************************************************)
EXTENDS Integers, Sequences, FiniteSets

\* ------------------------------------------------------------ bounds
MaxNt == 2
MaxNz == 2

\* ------------------------------------------------- rational arithmetic
Abs(n) == IF n < 0 THEN -n ELSE n

RECURSIVE GCD(_, _)
GCD(m, n) == IF n = 0 THEN m ELSE GCD(n, m % n)

Rat(n, d) ==
    LET s == IF d < 0 THEN -1 ELSE 1
        g == GCD(Abs(n), Abs(d))
    IN  <<(s * n) \div g, (s * d) \div g>>

Zero == <<0, 1>>
RAdd(p, q) == Rat(p[1] * q[2] + q[1] * p[2], p[2] * q[2])
RSub(p, q) == Rat(p[1] * q[2] - q[1] * p[2], p[2] * q[2])
RMul(p, q) == Rat(p[1] * q[1], p[2] * q[2])
RDiv(p, q) == Rat(p[1] * q[2], p[2] * q[1])
RLt(p, q) == p[1] * q[2] < q[1] * p[2]
RLe(p, q) == p[1] * q[2] <= q[1] * p[2]
RAbs(p) == <<Abs(p[1]), p[2]>>
RMax(p, q) == IF RLt(p, q) THEN q ELSE p
RMin(p, q) == IF RLt(q, p) THEN q ELSE p

RECURSIVE SeqMax(_)
SeqMax(s) == IF Len(s) = 1 THEN s[1] ELSE RMax(s[1], SeqMax(Tail(s)))

RECURSIVE SeqMin(_)
SeqMin(s) == IF Len(s) = 1 THEN s[1] ELSE RMin(s[1], SeqMin(Tail(s)))

\* ------------------------------------------------------- parameters
\* params.py: the time step, the porosity floor
dt == <<1, 2>>
phi_min == <<1, 10>>
\* the initial porosity of the caller's initial condition
phi0 == <<3, 10>>

\* the value written by the clamp: 1.01*phi_min
ClampValue == RMul(<<101, 100>>, phi_min)

\* bc_top as the caller may give it
BcTops == {[type |-> "velocity", value |-> <<-1, 1>>],
           [type |-> "stress", value |-> Zero]}

\* the meshes the caller may give: vertex coordinates, base at z = 0
Meshes == {<<Zero, <<2, 1>>>>, <<Zero, <<1, 1>>, <<2, 1>>>>,
           <<Zero, <<1, 2>>, <<2, 1>>>>}

\* nodal values the external Newton solve may return at an unconstrained dof
WVals == {<<-7, 1>>, <<-3, 1>>}
PhiVals == {<<1, 20>>, phi_min, phi0}


\* ------------------------------------------------ library primitives
\* np.isclose(a, b): |a - b| <= atol + rtol*|b| with atol = 1e-8, rtol = 1e-5,
\* i.e. 1e8*|a - b| <= 1 + 1000*|b|, computed without leaving the integers
IsClose(a, b) ==
    LET df == RAbs(RSub(a, b))
        m == RAbs(b)
    IN  df[1] * m[2] <= (df[2] * m[2] + 1000 * m[1] * df[2]) \div 100000000

\* locate_entities_boundary(domain, dim-1, marker): the vertices on the
\* boundary of the interval mesh (its two ends) that the marker accepts;
\* locate_dofs_topological gives the P1 dof of each such vertex
ExteriorFacets(x) == {1, Len(x)}
LocateDofs(x, target) == {k \in ExteriorFacets(x) : IsClose(x[k], target)}

\* domain.geometry.x.max(): geometry.x holds (x, y, z) rows with y = z = 0
GeometryMax(x) == RMax(SeqMax(x), Zero)

\* the value a list of Dirichlet conditions gives dof k: the library sets them
\* in list order, so the last condition holding k decides
RECURSIVE BcValue(_, _, _)
BcValue(bcs, k, free) ==
    IF bcs = <<>> THEN free
    ELSE LET last == bcs[Len(bcs)]
         IN  IF k \in last.dofs THEN last.value
             ELSE BcValue(SubSeq(bcs, 1, Len(bcs) - 1), k, free)

BcDofs(bcs) == UNION {bcs[j].dofs : j \in 1..Len(bcs)}

\* a cell of zero length: the assembly divides by it
Degenerate(x) == \E k \in 1..(Len(x) - 1) : x[k] = x[k + 1]

\* ------------------------------------------------------- weak_form
\* the boundary measure restricted to the facets located at z = H
WeakFormDsTop(x) == LocateDofs(x, GeometryMax(x))

\* the boundary term of the residual: bc_top['value']*w_t*ds, where ds is the
\* measure of all exterior facets
WeakFormDs(x) == ExteriorFacets(x)

WeakForm(x, bc_top) ==
    [dx |-> {"darcy", "viscous", "body", "dphidt", "advection", "dilation",
             "penalty"},
     ds |-> IF bc_top.type = "stress"
            THEN {[coef |-> bc_top.value, facets |-> WeakFormDs(x)]}
            ELSE {}]

\* ------------------------------------------------------- solve_pde
\* the Dirichlet list with the top condition whatever the type of bc_top
SolvePdeBcsBoth(x, bc_top) ==
    <<[value |-> Zero, dofs |-> LocateDofs(x, Zero)],
      [value |-> bc_top.value, dofs |-> LocateDofs(x, GeometryMax(x))]>>

\* the Dirichlet conditions of the step
SolvePdeBcs(x, bc_top) ==
    LET H == GeometryMax(x)
        dofs_t == LocateDofs(x, H)
        dofs_b == LocateDofs(x, Zero)
        bc_b == [value |-> Zero, dofs |-> dofs_b]
    IN  IF bc_top.type = "velocity"
        THEN <<bc_b, [value |-> bc_top.value, dofs |-> dofs_t]>>
        ELSE <<bc_b>>

\* what a converged Newton solve may return: the Dirichlet values at the
\* constrained w dofs, any value elsewhere
NewtonSolutions(N, bcs) ==
    {[w |-> [k \in 1..N |-> BcValue(bcs, k, wf[k])], phi |-> pf] :
        wf \in [1..N -> WVals], pf \in [1..N -> PhiVals]}

\* the clamp with its comparison turned around
ClampReversed(phi) ==
    [k \in 1..Len(phi) |-> IF RLt(phi_min, phi[k]) THEN ClampValue ELSE phi[k]]

\* Phi.x.array[Phi.x.array<phi_min] = 1.01*phi_min
Clamp(phi) ==
    [k \in 1..Len(phi) |-> IF RLt(phi[k], phi_min) THEN ClampValue ELSE phi[k]]

\* ---------------------------------------------------------- interp
\* np.linspace(a, b, num)
Linspace(a, b, num) ==
    IF num = 1 THEN <<a>>
    ELSE [k \in 1..num |->
            RAdd(a, RMul(<<k - 1, num - 1>>, RSub(b, a)))]

\* griddata(points, values, X, method='linear') in one dimension, at one
\* target point: linear interpolation on the cell of the mesh that holds X
Griddata1(points, values, X) ==
    LET cells == {k \in 1..(Len(points) - 1) :
                    /\ RLe(RMin(points[k], points[k + 1]), X)
                    /\ RLe(X, RMax(points[k], points[k + 1]))}
        k == CHOOSE c \in cells : \A c2 \in cells : c <= c2
    IN  RAdd(values[k],
             RMul(RSub(values[k + 1], values[k]),
                  RDiv(RSub(X, points[k]), RSub(points[k + 1], points[k]))))

Interp(vals, x, n) ==
    LET Z == Linspace(SeqMin(x), SeqMax(x), n + 1)
    IN  [points_i |-> Z,
         F |-> [j \in 1..Len(Z) |-> Griddata1(x, vals, Z[j])]]

\* ------------------------------------------------------- move_mesh
\* the boundary conditions of the auxiliary Laplace problem
MoveMeshBcs(x, w) ==
    LET H == GeometryMax(x)
        w_top == w[Len(w)]
    IN  <<[value |-> w_top, dofs |-> LocateDofs(x, H)],
          [value |-> Zero, dofs |-> LocateDofs(x, Zero)]>>

\* length of the mesh from vertex 1 to vertex k
RECURSIVE ArcLength(_, _)
ArcLength(x, k) ==
    IF k = 1 THEN Zero
    ELSE RAdd(ArcLength(x, k - 1), RAbs(RSub(x[k], x[k - 1])))

\* the displacement without the smoothing: the boundary values at the
\* constrained dofs, zero at every other vertex
LaplaceUnsmoothed(x, bcs) ==
    [k \in 1..Len(x) |-> BcValue(bcs, k, Zero)]

\* LinearProblem(a, L, bcs).solve() for a = disp'*v'*dx, L = 0: linear
\* between two constrained ends, constant when one end only is constrained
Laplace(x, bcs) ==
    LET N == Len(x)
        c == BcDofs(bcs)
        g1 == BcValue(bcs, 1, Zero)
        gN == BcValue(bcs, N, Zero)
    IN  [k \in 1..N |->
            CASE c = {1, N} ->
                    RAdd(g1, RMul(RSub(gN, g1),
                                  RDiv(ArcLength(x, k), ArcLength(x, N))))
              [] c = {1} -> g1
              [] c = {N} -> gN]

\* z[:,0] += dt*disp_vv
MoveMesh(x, w) ==
    LET disp_vv == Laplace(x, MoveMeshBcs(x, w))
    IN  [k \in 1..Len(x) |-> RAdd(x[k], RMul(dt, disp_vv[k]))]

\* ------------------------------------------------------------ numpy
\* target[i, :] = src for a row of length n: src must have length n or 1
\* (a single sample, as for nz = 0, is stretched over the row, also over an
\* empty one)
Broadcastable(src, n) == Len(src) = n \/ Len(src) = 1
Broadcast(src, n) == [j \in 1..n |-> IF Len(src) = 1 THEN src[1] ELSE src[j]]

\* np.zeros((rows, cols))
Zeros(rows, cols) == [r \in 1..rows |-> [c \in 1..cols |-> Zero]]

\* ------------------------------------------------------------ state
VARIABLES
    nt, nz,               \* params.py: number of steps, output resolution
    bc_top,               \* the top boundary condition of the caller
    ic,                   \* the nodal values the caller put into `initial`
    x,                    \* domain.geometry.x[:,0], moved in place
    heap,                 \* the Function objects: id -> [w, phi] nodal values
    initial, sol_n, sol,  \* object ids held by the names (sol = 0: unbound)
    i,                    \* the loop index of solve (0-based)
    pc,                   \* the position in solve / solve_pde
    F, bcs,               \* solve_pde: the residual and the Dirichlet list
    w_i, phi_i, z_i,      \* the sampled rows
    w_arr, phi_arr, z_arr,
    err,                  \* the exception that ended the run, or "none"
    ret                   \* what solve returned (<<>>: nothing)

vars == <<nt, nz, bc_top, ic, x, heap, initial, sol_n, sol, i, pc, F, bcs,
          w_i, phi_i, z_i, w_arr, phi_arr, z_arr, err, ret>>

params == <<nt, nz, bc_top, ic, initial>>
arrays == <<w_arr, phi_arr, z_arr>>
samples == <<w_i, phi_i, z_i>>

\* the caller's initial condition: zero velocity, uniform porosity phi0
InitialCondition(N) == [w |-> [k \in 1..N |-> Zero], phi |-> [k \in 1..N |-> phi0]]

\* sol_n as a copy of initial in an object of its own
BindSolNCopy(h, init) == [ref |-> 2, heap |-> [o \in {init, 2} |-> h[init]]]

\* sol_n = initial
BindSolN(h, init) == [ref |-> init, heap |-> h]

Init ==
    /\ nt \in 1..MaxNt
    /\ nz \in 0..MaxNz
    /\ bc_top \in BcTops
    /\ x \in Meshes
    /\ ic = InitialCondition(Len(x))
    /\ initial = 1
    /\ LET b == BindSolN([o \in {1} |-> ic], 1)
       IN  sol_n = b.ref /\ heap = b.heap
    /\ sol = 0
    /\ i = 0
    /\ pc = "loop"
    /\ F = [dx |-> {}, ds |-> {}]
    /\ bcs = <<>>
    /\ w_arr = Zeros(nt, nz)
    /\ phi_arr = Zeros(nt, nz)
    /\ z_arr = Zeros(nt, nz)
    /\ w_i = <<>>
    /\ z_i = <<>>
    /\ phi_i = phi_arr
    /\ err = "none"
    /\ ret = <<>>

\* for i in range(nt): one more iteration
Iterate ==
    /\ pc = "loop"
    /\ i < nt
    /\ pc' = "assemble"
    /\ UNCHANGED <<params, x, heap, sol_n, sol, i, F, bcs, samples, arrays,
                   err, ret>>

\* solve_pde up to the Newton solve: a new Function sol, the boundary
\* conditions, the residual, and the initial guess copied from sol_n
Assemble ==
    /\ pc = "assemble"
    /\ LET new == i + 3
       IN  /\ sol' = new
           /\ heap' = [o \in {initial, sol_n, new} |->
                         IF o = new THEN [w |-> heap[sol_n].w,
                                          phi |-> heap[sol_n].phi]
                         ELSE heap[o]]
    /\ bcs' = SolvePdeBcs(x, bc_top)
    /\ F' = WeakForm(x, bc_top)
    /\ pc' = "newton"
    /\ UNCHANGED <<params, x, sol_n, i, samples, arrays, err, ret>>

\* solver.solve(sol) converges (on a cell of zero length the residual is not
\* finite and it cannot)
NewtonConverge ==
    /\ pc = "newton"
    /\ ~Degenerate(x)
    /\ \E s \in NewtonSolutions(Len(x), bcs) :
          heap' = [heap EXCEPT ![sol] = s]
    /\ pc' = "clamp"
    /\ UNCHANGED <<params, x, sol_n, sol, i, F, bcs, samples, arrays, err, ret>>

\* the failure reported but not raised: the step goes on with the iterate
NewtonFailSwallowed ==
    /\ pc = "newton"
    /\ err' = "RuntimeError"
    /\ pc' = "clamp"
    /\ UNCHANGED <<params, x, heap, sol_n, sol, i, F, bcs, samples, arrays, ret>>

\* solver.solve(sol) does not converge: the library raises RuntimeError,
\* which nothing in solve_pde or solve catches
NewtonFail ==
    /\ pc = "newton"
    /\ err' = "RuntimeError"
    /\ pc' = "raised"
    /\ UNCHANGED <<params, x, heap, sol_n, sol, i, F, bcs, samples, arrays, ret>>

\* the clamp of the porosity, then return sol
ClampPhi ==
    /\ pc = "clamp"
    /\ heap' = [heap EXCEPT ![sol].phi = Clamp(@)]
    /\ pc' = "interp"
    /\ UNCHANGED <<params, x, sol_n, sol, i, F, bcs, samples, arrays, err, ret>>

\* z_i,w_i = interp(sol.sub(0),domain); z_i,phi_i = interp(sol.sub(1),domain)
Sample ==
    /\ pc = "interp"
    /\ w_i' = Interp(heap[sol].w, x, nz).F
    /\ phi_i' = Interp(heap[sol].phi, x, nz).F
    /\ z_i' = Interp(heap[sol].phi, x, nz).points_i
    /\ pc' = "record"
    /\ UNCHANGED <<params, x, heap, sol_n, sol, i, F, bcs, arrays, err, ret>>

\* w_arr[i,:] = w_i; phi_arr[i,:] = phi_i; z_arr[i,:] = z_i: the first
\* assignment whose shapes do not broadcast raises ValueError
Record ==
    /\ pc = "record"
    /\ LET okw == Broadcastable(w_i, nz)
           okp == okw /\ Broadcastable(phi_i, nz)
           okz == okp /\ Broadcastable(z_i, nz)
       IN  /\ w_arr' = IF okw THEN [w_arr EXCEPT ![i + 1] = Broadcast(w_i, nz)]
                       ELSE w_arr
           /\ phi_arr' = IF okp
                         THEN [phi_arr EXCEPT ![i + 1] = Broadcast(phi_i, nz)]
                         ELSE phi_arr
           /\ z_arr' = IF okz THEN [z_arr EXCEPT ![i + 1] = Broadcast(z_i, nz)]
                       ELSE z_arr
           /\ pc' = IF okz THEN "move_mesh" ELSE "raised"
           /\ err' = IF okz THEN err ELSE "ValueError"
    /\ UNCHANGED <<params, x, heap, sol_n, sol, i, F, bcs, samples, ret>>

\* domain = move_mesh(domain,sol)
MoveMeshStep ==
    /\ pc = "move_mesh"
    /\ x' = MoveMesh(x, heap[sol].w)
    /\ pc' = "copy"
    /\ UNCHANGED <<params, heap, sol_n, sol, i, F, bcs, samples, arrays, err, ret>>

\* sol_n = sol: the name rebound instead of the fields copied
CopySolNRebind(h, sn, s) == [ref |-> s, heap |-> h]

\* sol_n.sub(0).interpolate(sol.sub(0)); sol_n.sub(1).interpolate(sol.sub(1))
CopySolN(h, sn, s) ==
    [ref |-> sn, heap |-> [h EXCEPT ![sn] = [w |-> h[s].w, phi |-> h[s].phi]]]

CopySol ==
    /\ pc = "copy"
    /\ LET c == CopySolN(heap, sol_n, sol)
       IN  sol_n' = c.ref /\ heap' = c.heap
    /\ i' = i + 1
    /\ pc' = "loop"
    /\ UNCHANGED <<params, x, sol, F, bcs, samples, arrays, err, ret>>

\* return w_arr,phi_arr,z_arr
Return ==
    /\ pc = "loop"
    /\ i >= nt
    /\ ret' = <<w_arr, phi_arr, z_arr>>
    /\ pc' = "returned"
    /\ UNCHANGED <<params, x, heap, sol_n, sol, i, F, bcs, samples, arrays, err>>

Next ==
    \/ Iterate
    \/ Assemble
    \/ NewtonConverge
    \/ NewtonFail
    \/ ClampPhi
    \/ Sample
    \/ Record
    \/ MoveMeshStep
    \/ CopySol
    \/ Return

Spec == Init /\ [][Next]_vars

\* ------------------------------------------------------ properties
Ordered(z) == \A k \in 1..(Len(z) - 1) : RLt(z[k], z[k + 1])
Height(z) == RSub(SeqMax(z), SeqMin(z))
AboveFloor(f) == \A k \in DOMAIN f : RLe(phi_min, f[k])
Top == Len(x)

\* C1: for nz >= 1 the run meets no shape error when it stores the sampled
\* rows, and the arrays solve returns have shape (nt, nz+1).
C1_ShapesAndStore ==
    nz >= 1 =>
        /\ err # "ValueError"
        /\ pc = "returned" =>
              \A a \in {w_arr, phi_arr, z_arr} :
                  Len(a) = nt /\ \A r \in 1..nt : Len(a[r]) = nz + 1

\* C2: once the clamp of solve_pde has run, every nodal porosity of sol is
\* at least phi_min, and so is every sampled porosity and every porosity
\* stored in a row of phi_arr by a completed iteration.
C2_PhiFloor ==
    /\ pc \in {"interp", "record", "move_mesh", "copy"} =>
          AboveFloor(heap[sol].phi)
    /\ (pc \in {"record", "move_mesh", "copy"} \/ err = "ValueError") =>
          AboveFloor(phi_i)
    /\ \A r \in 1..i : AboveFloor(phi_arr[r])

\* C2 witness: the clamp has overwritten a node and the row was sampled
C2_Witness ==
    /\ pc = "record"
    /\ nz >= 1
    /\ \E k \in 1..Top : heap[sol].phi[k] = ClampValue
    /\ \E k \in 1..Top : heap[sol].phi[k] = phi_min

\* C3: in every call of solve_pde the first Dirichlet condition is w = 0 on
\* the boundary vertices at z = 0; with bc_top of type velocity a second
\* condition w = bc_top.value holds the boundary vertices at z = H and the
\* residual has no traction term; with type stress there is no second
\* condition and the residual has the traction term.  On an ordered mesh the
\* solved w is 0 at the base and, for velocity, bc_top.value at the top.
C3_BcDispatch ==
    pc \in {"newton", "clamp"} =>
        /\ Len(bcs) >= 1
        /\ bcs[1].value = Zero
        /\ bcs[1].dofs = {k \in {1, Top} : x[k] = Zero}
        /\ bc_top.type = "velocity" =>
              /\ Len(bcs) = 2
              /\ bcs[2].value = bc_top.value
              /\ bcs[2].dofs = {k \in {1, Top} : x[k] = GeometryMax(x)}
              /\ F.ds = {}
        /\ bc_top.type = "stress" =>
              /\ Len(bcs) = 1
              /\ F.ds # {}
              /\ \A t \in F.ds : t.coef = bc_top.value
        /\ (pc = "clamp" /\ Ordered(x)) =>
              /\ heap[sol].w[1] = Zero
              /\ bc_top.type = "velocity" => heap[sol].w[Top] = bc_top.value

\* C3 witness: a stress run whose top velocity came out of the solve, on a
\* mesh that has already moved
C3_Witness ==
    /\ pc = "clamp"
    /\ i >= 1
    /\ bc_top.type = "stress"
    /\ Ordered(x)
    /\ heap[sol].w[Top] = <<-3, 1>>

\* C4: a mesh motion step that starts from a strictly ordered mesh with its
\* base at z = 0 and has dt*w_top > -H leaves the mesh strictly ordered, its
\* base at z = 0 and its height positive; no other step of the driver moves
\* the mesh, so the same holds after any number of such steps.
C4_OrderPreserved ==
    [][/\ (/\ pc = "move_mesh"
           /\ x[1] = Zero
           /\ Ordered(x)
           /\ RLt(RSub(Zero, GeometryMax(x)), RMul(dt, heap[sol].w[Top])))
          => (Ordered(x') /\ x'[1] = Zero /\ RLt(Zero, Height(x')))
       /\ pc # "move_mesh" => x' = x]_vars

\* C4 witness: two consecutive steps below the threshold have lowered the top
\* from 2 to 1 and the mesh is still ordered
C4_Witness ==
    /\ pc = "copy"
    /\ i = 1
    /\ Ordered(x)
    /\ x[Top] = <<1, 1>>

\* C5: when the Newton solve of a step does not converge, the run ends there:
\* no row of that step or a later one is written, the mesh and sol_n are as
\* the step found them, nothing is returned, and no further step is taken.
C5_NewtonFailureFatal ==
    /\ [](err = "RuntimeError" =>
            /\ pc = "raised"
            /\ ret = <<>>
            /\ \A r \in (i + 1)..nt :
                  /\ w_arr[r] = Zeros(1, nz)[1]
                  /\ phi_arr[r] = Zeros(1, nz)[1]
                  /\ z_arr[r] = Zeros(1, nz)[1])
    /\ [][/\ err = "RuntimeError" => UNCHANGED vars
          /\ (err # "RuntimeError" /\ err' = "RuntimeError") =>
                /\ pc = "newton"
                /\ UNCHANGED <<x, w_arr, phi_arr, z_arr, i, sol_n, ret>>
                /\ heap'[sol_n] = heap[sol_n]]_vars

\* C5 witness: the Newton solve of the second step has failed
C5_Witness == err = "RuntimeError" /\ i = 1

\* C6: the only way a run ends before its nt-th iteration is a Newton
\* failure, and a run that returns has made exactly nt iterations.
C6_NoEarlyExit ==
    /\ pc = "raised" => err = "RuntimeError"
    /\ pc = "returned" => i = nt

\* C7: at the start of an iteration sol_n holds the caller's initial
\* condition (first iteration) or the clamped solution of the previous
\* iteration, which nothing has changed since solve_pde returned it; the mesh
\* is the one the previous mesh motion left; sol_n and sol are never the same
\* object.
C7_LoopInvariant ==
    /\ [](/\ (pc \in {"loop", "assemble"} /\ i = 0) => heap[sol_n] = ic
          /\ (pc \in {"loop", "assemble"} /\ i >= 1) =>
                /\ heap[sol_n] = heap[sol]
                /\ AboveFloor(heap[sol_n].phi)
          /\ sol # 0 => sol_n # sol)
    /\ [][/\ pc \in {"interp", "record", "move_mesh", "copy"} =>
                heap'[sol] = heap[sol]
          /\ pc \in {"copy", "loop"} => x' = x]_vars

\* C7 witness: the second iteration starts from a solution that is not the
\* initial condition
C7_Witness ==
    /\ pc = "assemble"
    /\ i = 1
    /\ heap[sol_n] # ic

\* C8 as stated: with bc_top of type stress the traction term is integrated
\* on the top facet (z = H) only.
C8_TopFacetOnly ==
    (pc \in {"newton", "clamp"} /\ bc_top.type = "stress") =>
        \A t \in F.ds : t.facets = {k \in {1, Top} : x[k] = GeometryMax(x)}

\* C8 amended: with bc_top of type stress the traction term is integrated
\* over both exterior facets; on an ordered mesh the base facet's row is that
\* of a Dirichlet dof, so the top row is the only traction row left in the
\* solved system.
C8_TractionOnExterior ==
    (pc \in {"newton", "clamp"} /\ bc_top.type = "stress") =>
        /\ F.ds # {}
        /\ \A t \in F.ds :
              /\ t.facets = {1, Top}
              /\ Ordered(x) => t.facets \ BcDofs(bcs) = {Top}

\* C8 witness: a stress run assembled on an ordered mesh that has moved
C8_Witness ==
    /\ pc = "newton"
    /\ bc_top.type = "stress"
    /\ i >= 1
    /\ Ordered(x)

\* C9: the record step of iteration i stores the sampled rows into row i of
\* the three arrays, changes no other row, and the iteration goes on.
C9_RowWritten ==
    [][pc = "record" =>
          /\ pc' = "move_mesh"
          /\ w_arr'[i + 1] = Broadcast(w_i, nz)
          /\ phi_arr'[i + 1] = Broadcast(phi_i, nz)
          /\ z_arr'[i + 1] = Broadcast(z_i, nz)
          /\ \A r \in (1..nt) \ {i + 1} :
                /\ w_arr'[r] = w_arr[r]
                /\ phi_arr'[r] = phi_arr[r]
                /\ z_arr'[r] = z_arr[r]]_vars

\* C10: sol_n is the caller's object `initial`: after every completed
\* iteration, and when solve has returned, that object holds the clamped
\* solution of the last step solved.
C10_InitialOverwritten ==
    /\ sol_n = initial
    /\ (pc \in {"loop", "returned"} /\ i >= 1) =>
          /\ heap[initial].w = heap[sol].w
          /\ heap[initial].phi = heap[sol].phi

\* C10 witness: solve has returned and the caller's object no longer holds
\* the initial condition
C10_Witness ==
    /\ pc = "returned"
    /\ heap[initial] # ic

=============================================================================
